---- MODULE Spec2Model ----
(***************************************************************************)
(* The virtual-host registry of awsl (src/src/core/interface.rs).          *)
(*                                                                         *)
(* Registry.web is a Vec<WebServer>; add_server partitions it against a    *)
(* WebServerInstance under an OverwritePolicy, clear empties it.  Vectors  *)
(* are sequences (1-based here, 0-based in the source), the BTreeMap       *)
(* subservers is a function whose DOMAIN is its key set, an Option is the  *)
(* empty sequence (None) or a one-element sequence (Some), and an          *)
(* Arc<dyn BackendDescriptor> is the number of the allocation it points    *)
(* to.  add_server only ever clones descriptors, it never compares them,   *)
(* so every call brings a descriptor of its own, numbered by the calls     *)
(* the registry has accepted since it was last empty.                      *)
(***************************************************************************)
EXTENDS Integers, Sequences, FiniteSets, TLC

VARIABLES web, call, ncalls

vars == <<web, call, ncalls>>

(***************************************************************************)
(* Bounds of the model and the values requests are drawn from.  MaxCalls   *)
(* bounds the add_server calls that pass the input checks between two      *)
(* clears.  Host lists are the duplicate-free lists over HostNames, in     *)
(* every order, the empty list included; interface lists are the lists     *)
(* over InterfaceValues in ascending port order, the empty list included.  *)
(***************************************************************************)
MaxCalls == 3

None == <<>>

Some(x) == <<x>>

HostNames == {"host1", "host2"}

Http80 == [port |-> 80, attr |-> "Http"]

Https443 == [port |-> 443, attr |-> "Https"]

InterfaceValues == {Http80, Https443}

LocationValues == {None, Some("/test")}

OverwritePolicy == {"Error", "Ignore", "Overwrite"}

(***************************************************************************)
(* Vec helpers.                                                            *)
(***************************************************************************)
Contains(s, x) == \E k \in 1..Len(s) : s[k] = x

Remove(s, id) == [k \in 1..(Len(s) - 1) |-> IF k < id THEN s[k] ELSE s[k + 1]]

Range(s) == {s[k] : k \in 1..Len(s)}

NoDup(s) == \A j, k \in 1..Len(s) : j # k => s[j] # s[k]

Ascending(s) == \A j, k \in 1..Len(s) : j < k => s[j].port < s[k].port

SeqsUpTo(S, n) == UNION {[1..k -> S] : k \in 0..n}

EmptyMap == [l \in {} |-> None]

Insert(m, key, value) == [l \in (DOMAIN m) \cup {key} |-> IF l = key THEN value ELSE m[l]]

(***************************************************************************)
(* WebServer and WebServerInstance.                                        *)
(***************************************************************************)
WebServer(host, interface, subservers, server) ==
    [host |-> host, interface |-> interface, subservers |-> subservers, server |-> server]

HostLists == {s \in SeqsUpTo(HostNames, Cardinality(HostNames)) : NoDup(s)}

InterfaceLists ==
    {s \in SeqsUpTo(InterfaceValues, Cardinality(InterfaceValues)) : Ascending(s)}

WebServerInstance ==
    {[host |-> h, interface |-> f, location |-> l, descriptor |-> ncalls + 1] :
        h \in HostLists, f \in InterfaceLists, l \in LocationValues}

(***************************************************************************)
(* execute_overwrite_policy!: `check` says the slot is occupied, `old` is  *)
(* the slot as it stands and `w` the slot after the write statement.       *)
(* err is the macro's `return Err(..)`.                                    *)
(***************************************************************************)
(* Slip of the Ignore arm: the write statement runs on an occupied slot.   *)
ExecuteOverwritePolicy_IgnoreWrites(policy, check, old, w) ==
    IF check
    THEN CASE policy = "Error" -> [err |-> TRUE, value |-> old]
           [] policy = "Ignore" -> [err |-> FALSE, value |-> w]
           [] policy = "Overwrite" -> [err |-> FALSE, value |-> w]
    ELSE [err |-> FALSE, value |-> w]

(* Slip of the Ignore arm: an occupied slot is reported as for Error.      *)
ExecuteOverwritePolicy_IgnoreErrs(policy, check, old, w) ==
    IF check
    THEN CASE policy = "Error" -> [err |-> TRUE, value |-> old]
           [] policy = "Ignore" -> [err |-> TRUE, value |-> old]
           [] policy = "Overwrite" -> [err |-> FALSE, value |-> w]
    ELSE [err |-> FALSE, value |-> w]

ExecuteOverwritePolicy(policy, check, old, w) ==
    IF check
    THEN CASE policy = "Error" -> [err |-> TRUE, value |-> old]
           [] policy = "Ignore" -> [err |-> FALSE, value |-> old]
           [] policy = "Overwrite" -> [err |-> FALSE, value |-> w]
    ELSE [err |-> FALSE, value |-> w]

(***************************************************************************)
(* for h in &web_host.host: the first position of h in hosts, if any, is   *)
(* removed from hosts and h is known; otherwise h is other.                *)
(***************************************************************************)
RECURSIVE PartitionHosts(_, _, _)
PartitionHosts(wh, k, acc) ==
    IF k > Len(wh) THEN acc
    ELSE LET h == wh[k]
             ids == {id \in 1..Len(acc.hosts) : acc.hosts[id] = h}
         IN  IF ids # {}
             THEN LET known_id == CHOOSE id \in ids : \A j \in ids : id <= j
                  IN  PartitionHosts(wh, k + 1,
                         [acc EXCEPT !.known_hosts = Append(@, h),
                                     !.hosts = Remove(@, known_id)])
             ELSE PartitionHosts(wh, k + 1, [acc EXCEPT !.other_hosts = Append(@, h)])

(* Slip of the filter: every requested interface counts as known.          *)
KnownInterfaces_All(interfaces, web_host) == interfaces

KnownInterfaces(interfaces, web_host) ==
    SelectSeq(interfaces, LAMBDA v : Contains(web_host.interface, v))

UnknownInterfaces(interfaces, web_host) ==
    SelectSeq(interfaces, LAMBDA v : ~Contains(web_host.interface, v))

OtherInterfaces(known_interfaces, web_host) ==
    SelectSeq(web_host.interface, LAMBDA v : ~Contains(known_interfaces, v))

(***************************************************************************)
(* "Overwrite on web_host": the requested slot of the matched group under  *)
(* the policy.                                                             *)
(***************************************************************************)
OverwriteSlot(web_host, inst, policy) ==
    IF inst.location # None
    THEN LET r == ExecuteOverwritePolicy(policy,
                      inst.location[1] \in DOMAIN web_host.subservers,
                      web_host.subservers,
                      Insert(web_host.subservers, inst.location[1], inst.descriptor))
         IN  [err |-> r.err, web_host |-> [web_host EXCEPT !.subservers = r.value]]
    ELSE LET r == ExecuteOverwritePolicy(policy,
                      web_host.server # None,
                      web_host.server,
                      Some(inst.descriptor))
         IN  [err |-> r.err, web_host |-> [web_host EXCEPT !.server = r.value]]

(***************************************************************************)
(* One iteration of 'host_search_loop on self.web[k].                      *)
(* st = [web, hosts, interfaces, new_hosts, err]: the registry, the hosts  *)
(* left in pairs[0], the working interfaces of this host, the side buffer  *)
(* of clones, and whether the policy returned Err.                         *)
(***************************************************************************)
(* Slips of the host split: the clone is not kept; the clone takes the     *)
(* known hosts and the original the others.                                *)
HostSplit_DropClone(web_host, known_hosts, other_hosts) ==
    IF Len(other_hosts) > 0
    THEN [web_host |-> [web_host EXCEPT !.host = known_hosts], new_hosts |-> <<>>]
    ELSE [web_host |-> web_host, new_hosts |-> <<>>]

HostSplit_Swapped(web_host, known_hosts, other_hosts) ==
    IF Len(other_hosts) > 0
    THEN [web_host |-> [web_host EXCEPT !.host = other_hosts],
          new_hosts |-> <<[web_host EXCEPT !.host = known_hosts]>>]
    ELSE [web_host |-> web_host, new_hosts |-> <<>>]

HostSplit(web_host, known_hosts, other_hosts) ==
    IF Len(other_hosts) > 0
    THEN [web_host |-> [web_host EXCEPT !.host = known_hosts],
          new_hosts |-> <<[web_host EXCEPT !.host = other_hosts]>>]
    ELSE [web_host |-> web_host, new_hosts |-> <<>>]

(* Slips of the interface split: the split is made without looking at     *)
(* other_interfaces.len(); the clone takes the known interfaces and the    *)
(* original the others.                                                    *)
InterfaceSplit_Always(web_host, known_interfaces, other_interfaces) ==
    [web_host |-> [web_host EXCEPT !.interface = known_interfaces],
     new_hosts |-> <<[web_host EXCEPT !.interface = other_interfaces]>>]

InterfaceSplit_Swapped(web_host, known_interfaces, other_interfaces) ==
    IF Len(other_interfaces) > 0
    THEN [web_host |-> [web_host EXCEPT !.interface = other_interfaces],
          new_hosts |-> <<[web_host EXCEPT !.interface = known_interfaces]>>]
    ELSE [web_host |-> web_host, new_hosts |-> <<>>]

(* Slip of the interface split: the clone is not kept.                     *)
InterfaceSplit_DropClone(web_host, known_interfaces, other_interfaces) ==
    IF Len(other_interfaces) > 0
    THEN [web_host |-> [web_host EXCEPT !.interface = known_interfaces],
          new_hosts |-> <<>>]
    ELSE [web_host |-> web_host, new_hosts |-> <<>>]

InterfaceSplit(web_host, known_interfaces, other_interfaces) ==
    IF Len(other_interfaces) > 0
    THEN [web_host |-> [web_host EXCEPT !.interface = known_interfaces],
          new_hosts |-> <<[web_host EXCEPT !.interface = other_interfaces]>>]
    ELSE [web_host |-> web_host, new_hosts |-> <<>>]

NarrowInterfaces(interfaces, unknown_interfaces) ==
    IF Len(unknown_interfaces) > 0 THEN unknown_interfaces ELSE interfaces

ScanWebHost(st, k, host, inst, policy) ==
    LET web_host == st.web[k] IN
    IF ~Contains(web_host.host, host) THEN st
    ELSE
      LET p == PartitionHosts(web_host.host, 1,
                   [known_hosts |-> <<>>, other_hosts |-> <<>>, hosts |-> st.hosts])
          known_interfaces == KnownInterfaces(st.interfaces, web_host)
          unknown_interfaces == UnknownInterfaces(st.interfaces, web_host)
          other_interfaces == OtherInterfaces(known_interfaces, web_host)
      IN
      IF Len(p.known_hosts) = 0 \/ Len(known_interfaces) = 0
      THEN [st EXCEPT !.hosts = p.hosts \o p.known_hosts]
      ELSE
        LET hs == HostSplit(web_host, p.known_hosts, p.other_hosts)
            is == InterfaceSplit(hs.web_host, known_interfaces, other_interfaces)
            ow == OverwriteSlot(is.web_host, inst, policy)
        IN  [web |-> [st.web EXCEPT ![k] = ow.web_host],
             hosts |-> p.hosts,
             interfaces |-> NarrowInterfaces(st.interfaces, unknown_interfaces),
             new_hosts |-> st.new_hosts \o hs.new_hosts \o is.new_hosts,
             err |-> ow.err]

RECURSIVE HostSearchLoop(_, _, _, _, _)
HostSearchLoop(st, k, host, inst, policy) ==
    IF st.err \/ k > Len(st.web) THEN st
    ELSE HostSearchLoop(ScanWebHost(st, k, host, inst, policy), k + 1, host, inst, policy)

(***************************************************************************)
(* while i < hosts.len(): scan the registry for hosts[i], append the side  *)
(* buffer, then either push (vec![host], interfaces) and keep i, or i += 1.*)
(* hl = [web, hosts, new_pairs, err].  A policy error returns before       *)
(* self.web.extend(new_hosts).                                             *)
(***************************************************************************)
(* Slip of the test: a narrowed interface list is never the longer one.    *)
AddNewPair_Longer(interfaces, interfaces_for_all_hosts) ==
    Len(interfaces) > 0 /\ Len(interfaces) > Len(interfaces_for_all_hosts)

AddNewPair(interfaces, interfaces_for_all_hosts) ==
    Len(interfaces) > 0 /\ Len(interfaces) # Len(interfaces_for_all_hosts)

RECURSIVE HostLoop(_, _, _, _, _)
HostLoop(hl, i, interfaces_for_all_hosts, inst, policy) ==
    IF hl.err \/ i > Len(hl.hosts) THEN hl
    ELSE
      LET host == hl.hosts[i]
          st == HostSearchLoop([web |-> hl.web, hosts |-> hl.hosts,
                                interfaces |-> interfaces_for_all_hosts,
                                new_hosts |-> <<>>, err |-> FALSE],
                               1, host, inst, policy)
      IN
      IF st.err
      THEN [hl EXCEPT !.web = st.web, !.hosts = st.hosts, !.err = TRUE]
      ELSE IF AddNewPair(st.interfaces, interfaces_for_all_hosts)
      THEN HostLoop([web |-> st.web \o st.new_hosts, hosts |-> st.hosts,
                     new_pairs |-> Append(hl.new_pairs, <<(<<host>>), st.interfaces>>),
                     err |-> FALSE],
                    i, interfaces_for_all_hosts, inst, policy)
      ELSE HostLoop([web |-> st.web \o st.new_hosts, hosts |-> st.hosts,
                     new_pairs |-> hl.new_pairs, err |-> FALSE],
                    i + 1, interfaces_for_all_hosts, inst, policy)

(***************************************************************************)
(* "Creating host": the hosts left in the pair get one new group.          *)
(***************************************************************************)
(* Slip of the new group: the descriptor always goes to the default slot.  *)
NewServer_DefaultSlot(hosts, interfaces_for_all_hosts, inst) ==
    WebServer(hosts, interfaces_for_all_hosts, EmptyMap, Some(inst.descriptor))

NewServer(hosts, interfaces_for_all_hosts, inst) ==
    IF inst.location # None
    THEN WebServer(hosts, interfaces_for_all_hosts,
                   Insert(EmptyMap, inst.location[1], inst.descriptor), None)
    ELSE WebServer(hosts, interfaces_for_all_hosts, EmptyMap, Some(inst.descriptor))

(* Slip of the push: the new group goes to the front of self.web.          *)
CreateHost_AtFront(w, hosts, interfaces_for_all_hosts, inst) ==
    IF Len(hosts) > 0
    THEN <<NewServer(hosts, interfaces_for_all_hosts, inst)>> \o w
    ELSE w

CreateHost(w, hosts, interfaces_for_all_hosts, inst) ==
    IF Len(hosts) > 0
    THEN Append(w, NewServer(hosts, interfaces_for_all_hosts, inst))
    ELSE w

(***************************************************************************)
(* while pairs.len() > 0: process pairs[0], extend pairs by new_pairs,     *)
(* remove pairs[0].                                                        *)
(***************************************************************************)
RECURSIVE PairsLoop(_, _, _, _)
PairsLoop(w, pairs, inst, policy) ==
    IF Len(pairs) = 0 THEN [web |-> w, result |-> "Ok"]
    ELSE
      LET hl == HostLoop([web |-> w, hosts |-> pairs[1][1], new_pairs |-> <<>>,
                          err |-> FALSE],
                         1, pairs[1][2], inst, policy)
      IN
      IF hl.err THEN [web |-> hl.web, result |-> "AlreadyExists"]
      ELSE PairsLoop(CreateHost(hl.web, hl.hosts, pairs[1][2], inst),
                     Tail(pairs \o hl.new_pairs), inst, policy)

(***************************************************************************)
(* The "Creating host" steps of the same loop, in the order they run: the  *)
(* hosts and interfaces of each group pushed and self.web as it stands     *)
(* when it is pushed.                                                      *)
(***************************************************************************)
RECURSIVE CreatingHostLog(_, _, _, _)
CreatingHostLog(w, pairs, inst, policy) ==
    IF Len(pairs) = 0 THEN <<>>
    ELSE
      LET hl == HostLoop([web |-> w, hosts |-> pairs[1][1], new_pairs |-> <<>>,
                          err |-> FALSE],
                         1, pairs[1][2], inst, policy)
          created == IF Len(hl.hosts) > 0
                     THEN <<[hosts |-> hl.hosts, interfaces |-> pairs[1][2],
                             web |-> hl.web]>>
                     ELSE <<>>
      IN
      IF hl.err THEN <<>>
      ELSE created \o CreatingHostLog(CreateHost(hl.web, hl.hosts, pairs[1][2], inst),
                                      Tail(pairs \o hl.new_pairs), inst, policy)

(* Slip of the input checks: the interface list is not checked.            *)
add_server_NoInterfaceCheck(w, inst, policy) ==
    IF Len(inst.host) = 0 THEN [web |-> w, result |-> "InvalidData"]
    ELSE PairsLoop(w, <<(<<inst.host, inst.interface>>)>>, inst, policy)

add_server(w, inst, policy) ==
    IF Len(inst.host) = 0 THEN [web |-> w, result |-> "InvalidData"]
    ELSE IF Len(inst.interface) = 0 THEN [web |-> w, result |-> "InvalidData"]
    ELSE PairsLoop(w, <<(<<inst.host, inst.interface>>)>>, inst, policy)

(***************************************************************************)
(* The registry as its caller sees it.  call is the call that has just     *)
(* returned: its arguments, its result and the registry it was made on;    *)
(* it is NoCall once the caller has taken the result.  ncalls counts the   *)
(* add_server calls that passed the input checks since the registry was    *)
(* last empty.                                                             *)
(***************************************************************************)
NoCall == [op |-> "idle"]

Init ==
    /\ web = <<>>
    /\ call = NoCall
    /\ ncalls = 0

AddServer ==
    /\ call = NoCall
    /\ ncalls < MaxCalls
    /\ \E inst \in WebServerInstance, policy \in OverwritePolicy :
         \E r \in {add_server(web, inst, policy)} :
             /\ web' = r.web
             /\ call' = [op |-> "add_server", inst |-> inst, policy |-> policy,
                         result |-> r.result, before |-> web]
             /\ ncalls' = IF r.result = "InvalidData" THEN ncalls ELSE ncalls + 1

(* Slip of clear: the oldest group is left in the registry.                *)
Clear_KeepsOldest ==
    /\ call = NoCall
    /\ web' = IF Len(web) = 0 THEN <<>> ELSE <<web[1]>>
    /\ call' = [op |-> "clear", before |-> web]
    /\ ncalls' = 0

Clear ==
    /\ call = NoCall
    /\ web' = <<>>
    /\ call' = [op |-> "clear", before |-> web]
    /\ ncalls' = 0

Return ==
    /\ call # NoCall
    /\ call' = NoCall
    /\ UNCHANGED <<web, ncalls>>

Next ==
    \/ AddServer
    \/ Clear
    \/ Return

Spec == Init /\ [][Next]_vars

(***************************************************************************)
(* The same registry over three hosts and three interfaces, the values of  *)
(* registry_add_server_test_point_complex_separation, with at most         *)
(* MaxCallsWide accepted add_server calls between two clears.              *)
(***************************************************************************)
MaxCallsWide == 2

WideHostNames == {"host1", "host2", "host3"}

Http8080 == [port |-> 8080, attr |-> "Http"]

WideInterfaceValues == {Http80, Https443, Http8080}

WideHostLists == {s \in SeqsUpTo(WideHostNames, Cardinality(WideHostNames)) : NoDup(s)}

WideInterfaceLists ==
    {s \in SeqsUpTo(WideInterfaceValues, Cardinality(WideInterfaceValues)) : Ascending(s)}

WideWebServerInstance ==
    {[host |-> h, interface |-> f, location |-> l, descriptor |-> ncalls + 1] :
        h \in WideHostLists, f \in WideInterfaceLists, l \in LocationValues}

AddServerWide ==
    /\ call = NoCall
    /\ ncalls < MaxCallsWide
    /\ \E inst \in WideWebServerInstance, policy \in OverwritePolicy :
         \E r \in {add_server(web, inst, policy)} :
             /\ web' = r.web
             /\ call' = [op |-> "add_server", inst |-> inst, policy |-> policy,
                         result |-> r.result, before |-> web]
             /\ ncalls' = IF r.result = "InvalidData" THEN ncalls ELSE ncalls + 1

NextWide ==
    \/ AddServerWide
    \/ Clear
    \/ Return

SpecWide == Init /\ [][NextWide]_vars

(***************************************************************************)
(* The registry of Spec driven under OverwritePolicy::Error only, the      *)
(* policy of nearly every call of the tests, with at most MaxCallsError    *)
(* accepted add_server calls between two clears.                           *)
(***************************************************************************)
MaxCallsError == 4

AddServerError ==
    /\ call = NoCall
    /\ ncalls < MaxCallsError
    /\ \E inst \in WebServerInstance :
         \E r \in {add_server(web, inst, "Error")} :
             /\ web' = r.web
             /\ call' = [op |-> "add_server", inst |-> inst, policy |-> "Error",
                         result |-> r.result, before |-> web]
             /\ ncalls' = IF r.result = "InvalidData" THEN ncalls ELSE ncalls + 1

NextError ==
    \/ AddServerError
    \/ Clear
    \/ Return

SpecError == Init /\ [][NextError]_vars

(***************************************************************************)
(* add_server one loop iteration at a time, over the values of Spec, with  *)
(* at most MaxCallsSteps accepted calls between two clears (MaxCallsFair   *)
(* where the loop iterations are taken fairly).  While the                 *)
(* call runs, call holds its position: pairs is the worklist, whose head   *)
(* is the pair being processed (its host list is the `hosts` the loop      *)
(* edits in place), i the index into hosts (from 1), new_pairs the items   *)
(* pushed while the head is processed.  taken lists the work items in the  *)
(* order their processing began, each as it was when it entered the        *)
(* worklist; pushed lists every new_pairs.push of the call: the item and   *)
(* interfaces_for_all_hosts of the pair processed when it was pushed.      *)
(***************************************************************************)
MaxCallsSteps == 3

MaxCallsFair == 2

Running == call.op = "running"

BeginAddWithin(max) ==
    /\ call = NoCall
    /\ ncalls < max
    /\ \E inst \in WebServerInstance, policy \in OverwritePolicy :
         IF Len(inst.host) = 0 \/ Len(inst.interface) = 0
         THEN /\ call' = [op |-> "add_server", inst |-> inst, policy |-> policy,
                          result |-> "InvalidData", before |-> web,
                          taken |-> <<>>, pushed |-> <<>>]
              /\ UNCHANGED <<web, ncalls>>
         ELSE /\ call' = [op |-> "running", inst |-> inst, policy |-> policy,
                          before |-> web,
                          pairs |-> <<(<<inst.host, inst.interface>>)>>,
                          i |-> 1, new_pairs |-> <<>>,
                          taken |-> <<(<<inst.host, inst.interface>>)>>,
                          pushed |-> <<>>]
              /\ ncalls' = ncalls + 1
              /\ UNCHANGED web

BeginAdd == BeginAddWithin(MaxCallsSteps)

BeginAddFair == BeginAddWithin(MaxCallsFair)

Returned(result) ==
    [op |-> "add_server", inst |-> call.inst, policy |-> call.policy,
     result |-> result, before |-> call.before,
     taken |-> call.taken, pushed |-> call.pushed]

(* Slip of the else branch: i is left as it is.                            *)
NextIndex_Stay(i) == i

NextIndex(i) == i + 1

(* One iteration of `while i < hosts.len()`.                               *)
HostStep ==
    /\ Running
    /\ call.i <= Len(call.pairs[1][1])
    /\ LET hosts == call.pairs[1][1]
           interfaces_for_all_hosts == call.pairs[1][2]
           host == hosts[call.i]
       IN  \E st \in {HostSearchLoop([web |-> web, hosts |-> hosts,
                                      interfaces |-> interfaces_for_all_hosts,
                                      new_hosts |-> <<>>, err |-> FALSE],
                                     1, host, call.inst, call.policy)} :
             IF st.err
             THEN /\ web' = st.web
                  /\ call' = Returned("AlreadyExists")
             ELSE /\ web' = st.web \o st.new_hosts
                  /\ IF AddNewPair(st.interfaces, interfaces_for_all_hosts)
                     THEN call' = [call EXCEPT
                                     !.pairs[1][1] = st.hosts,
                                     !.new_pairs = Append(@, <<(<<host>>), st.interfaces>>),
                                     !.pushed = Append(@, [item |-> <<(<<host>>), st.interfaces>>,
                                                           from |-> interfaces_for_all_hosts])]
                     ELSE call' = [call EXCEPT
                                     !.pairs[1][1] = st.hosts,
                                     !.i = NextIndex(@)]
    /\ UNCHANGED ncalls

(* Slip of the queue: each new pair is inserted at the head.               *)
NextPairs_AtHead(pairs, new_pairs) ==
    [k \in 1..Len(new_pairs) |-> new_pairs[Len(new_pairs) + 1 - k]] \o Tail(pairs)

(* pairs.extend(new_pairs); pairs.remove(0).                               *)
NextPairs(pairs, new_pairs) == Tail(pairs \o new_pairs)

(* The end of one iteration of `while pairs.len() > 0`: "Creating host",   *)
(* pairs.extend(new_pairs), pairs.remove(0), and Ok(self) when the         *)
(* worklist is empty.                                                      *)
PairStep ==
    /\ Running
    /\ call.i > Len(call.pairs[1][1])
    /\ web' = CreateHost(web, call.pairs[1][1], call.pairs[1][2], call.inst)
    /\ LET rest == NextPairs(call.pairs, call.new_pairs)
       IN  IF Len(rest) = 0
           THEN call' = Returned("Ok")
           ELSE call' = [call EXCEPT !.pairs = rest, !.i = 1, !.new_pairs = <<>>,
                                     !.taken = Append(@, rest[1])]
    /\ UNCHANGED ncalls

(* The caller has the result only once the call has returned.              *)
ReturnSteps ==
    /\ ~Running
    /\ Return

NextSteps ==
    \/ BeginAdd
    \/ HostStep
    \/ PairStep
    \/ Clear
    \/ ReturnSteps

SpecSteps == Init /\ [][NextSteps]_vars

NextStepsFair ==
    \/ BeginAddFair
    \/ HostStep
    \/ PairStep
    \/ Clear
    \/ ReturnSteps

(* The call is synchronous and single-threaded: a loop iteration that can  *)
(* run does run.                                                           *)
SpecStepsFair ==
    Init /\ [][NextStepsFair]_vars /\ WF_vars(HostStep) /\ WF_vars(PairStep)

(* What the stepped call leaves is what add_server computes.               *)
StepsAgree ==
    call.op = "add_server" =>
        /\ web = add_server(call.before, call.inst, call.policy).web
        /\ call.result = add_server(call.before, call.inst, call.policy).result

(***************************************************************************)
(* Vocabulary of the properties.                                           *)
(***************************************************************************)
Added == call.op = "add_server"

Succeeded == Added /\ call.result = "Ok"

ValidInput == Added /\ Len(call.inst.host) > 0 /\ Len(call.inst.interface) > 0

Covers(g, h, i) == Contains(g.host, h) /\ Contains(g.interface, i)

SlotOf(g, location) ==
    IF location = None THEN g.server
    ELSE IF location[1] \in DOMAIN g.subservers THEN Some(g.subservers[location[1]])
    ELSE None

TableOf(g) == [subservers |-> g.subservers, server |-> g.server]

TableWith(t, inst) ==
    IF inst.location = None
    THEN [t EXCEPT !.server = Some(inst.descriptor)]
    ELSE [t EXCEPT !.subservers = Insert(@, inst.location[1], inst.descriptor)]

HostsOf(w) == UNION {Range(w[k].host) : k \in 1..Len(w)}

InterfacesOf(w) == UNION {Range(w[k].interface) : k \in 1..Len(w)}

RequestedPairs == Range(call.inst.host) \X Range(call.inst.interface)

OccupiedBefore ==
    \E k \in 1..Len(call.before), p \in RequestedPairs :
        /\ Covers(call.before[k], p[1], p[2])
        /\ SlotOf(call.before[k], call.inst.location) # None

(***************************************************************************)
(* C1.  After add_server returns Ok under policy Error or Overwrite, every *)
(* (host, interface) pair of the request is covered by a group whose       *)
(* requested slot holds the request's descriptor.                          *)
(***************************************************************************)
C1_AttachedToCrossProduct ==
    (Succeeded /\ call.policy \in {"Error", "Overwrite"}) =>
        \A p \in RequestedPairs :
            \E k \in 1..Len(web) :
                /\ Covers(web[k], p[1], p[2])
                /\ SlotOf(web[k], call.inst.location) = Some(call.inst.descriptor)

(***************************************************************************)
(* C2.  In every state reachable by add_server calls (duplicate-free       *)
(* non-empty lists, any policy) and clear calls, no two distinct groups    *)
(* cover the same (host, interface) pair and both hold a backend in the    *)
(* same slot.                                                              *)
(***************************************************************************)
C2_Uniqueness ==
    \A j, k \in 1..Len(web) :
        j # k =>
            \A h \in HostNames, i \in InterfaceValues, s \in LocationValues :
                ~ /\ Covers(web[j], h, i)
                  /\ Covers(web[k], h, i)
                  /\ SlotOf(web[j], s) # None
                  /\ SlotOf(web[k], s) # None

(***************************************************************************)
(* C3.  Under policy Error, when a group of the registry covers a pair of  *)
(* the request and already holds a backend in the requested slot,          *)
(* add_server fails with AlreadyExists.                                    *)
(***************************************************************************)
C3_ConflictDetected ==
    (ValidInput /\ call.policy = "Error" /\ OccupiedBefore) =>
        call.result = "AlreadyExists"

(***************************************************************************)
(* C4.  add_server with an empty host list or an empty interface list      *)
(* fails with InvalidData, under every policy, and leaves the registry     *)
(* exactly as it was.                                                      *)
(***************************************************************************)
C4_InvalidInputRejected ==
    (Added /\ (Len(call.inst.host) = 0 \/ Len(call.inst.interface) = 0)) =>
        /\ call.result = "InvalidData"
        /\ web = call.before

C4_Witness ==
    /\ Added
    /\ Len(call.inst.host) > 0
    /\ Len(call.inst.interface) = 0
    /\ call.policy = "Overwrite"
    /\ call.result = "InvalidData"
    /\ Len(call.before) >= 2

(***************************************************************************)
(* C5.  After add_server returns Ok, the hosts of the registry are the     *)
(* hosts it had before together with the request's, and its interfaces are *)
(* the interfaces it had before together with the request's.               *)
(***************************************************************************)
C5_UnionPreserved ==
    Succeeded =>
        /\ HostsOf(web) = HostsOf(call.before) \cup Range(call.inst.host)
        /\ InterfacesOf(web) = InterfacesOf(call.before) \cup Range(call.inst.interface)

C5_Witness ==
    /\ Succeeded
    /\ Len(web) > Len(call.before) + 1
    /\ ~ (HostsOf(call.before) \subseteq Range(call.inst.host))
    /\ ~ (Range(call.inst.interface) \subseteq InterfacesOf(call.before))

(***************************************************************************)
(* C6.  Whether add_server succeeds or fails with AlreadyExists, every     *)
(* host and every interface that some group had before the call is still   *)
(* in some group after it.                                                 *)
(***************************************************************************)
C6_NothingLost ==
    Added =>
        /\ HostsOf(call.before) \subseteq HostsOf(web)
        /\ InterfacesOf(call.before) \subseteq InterfacesOf(web)

(***************************************************************************)
(* C7.  In every reachable state, the states left by add_server calls that *)
(* failed with AlreadyExists included, every group of the registry has a   *)
(* non-empty host list and a non-empty interface list.                     *)
(***************************************************************************)
C7_GroupsNonEmpty ==
    \A k \in 1..Len(web) : Len(web[k].host) > 0 /\ Len(web[k].interface) > 0

C7_Witness ==
    /\ Added
    /\ call.result = "AlreadyExists"
    /\ web # call.before
    /\ Len(web) >= 2

(***************************************************************************)
(* C8.  On the empty registry add_server with non-empty lists succeeds     *)
(* under every policy and leaves exactly one group: its hosts and          *)
(* interfaces are the request's and its only occupied slot is the          *)
(* requested one, holding the request's descriptor.                        *)
(***************************************************************************)
C8_FirstRegistration ==
    (ValidInput /\ call.before = <<>>) =>
        /\ call.result = "Ok"
        /\ Len(web) = 1
        /\ Range(web[1].host) = Range(call.inst.host)
        /\ Range(web[1].interface) = Range(call.inst.interface)
        /\ TableOf(web[1]) = TableWith([subservers |-> EmptyMap, server |-> None], call.inst)

C8_Witness ==
    /\ ValidInput
    /\ call.before = <<>>
    /\ call.policy = "Ignore"
    /\ Len(call.inst.host) = 2
    /\ call.inst.location # None
    /\ Len(web) = 1

(***************************************************************************)
(* C9, C10.  The registry holds a single group {H, I, T} and the slot the  *)
(* request names is free in T or the policy is not Error.                  *)
(***************************************************************************)
SingleGroupCase ==
    /\ ValidInput
    /\ Len(call.before) = 1
    /\ (SlotOf(call.before[1], call.inst.location) = None \/ call.policy # "Error")

ProperNonEmptySubset(a, b) == a # {} /\ a \subseteq b /\ a # b

PartialHostOverlap ==
    /\ SingleGroupCase
    /\ ProperNonEmptySubset(Range(call.inst.host), Range(call.before[1].host))
    /\ Range(call.inst.interface) = Range(call.before[1].interface)

PartialInterfaceOverlap ==
    /\ SingleGroupCase
    /\ Range(call.inst.host) = Range(call.before[1].host)
    /\ ProperNonEmptySubset(Range(call.inst.interface), Range(call.before[1].interface))

(* The table of the matched group after the call: T with the request's     *)
(* descriptor in the requested slot, unless the slot was occupied and the  *)
(* policy is Ignore, which leaves T as it is.                              *)
MatchedTable ==
    IF call.policy = "Ignore" /\ SlotOf(call.before[1], call.inst.location) # None
    THEN TableOf(call.before[1])
    ELSE TableWith(TableOf(call.before[1]), call.inst)

(***************************************************************************)
(* C9 as stated.  Partial host overlap leaves exactly two groups, in this  *)
(* order: {H', I} with T plus the request's descriptor in the requested    *)
(* slot, and {H minus H', I} with T.                                       *)
(***************************************************************************)
C9_HostSplit_AsStated ==
    PartialHostOverlap =>
        /\ Len(web) = 2
        /\ Range(web[1].host) = Range(call.inst.host)
        /\ Range(web[1].interface) = Range(call.before[1].interface)
        /\ TableOf(web[1]) = TableWith(TableOf(call.before[1]), call.inst)
        /\ Range(web[2].host) = Range(call.before[1].host) \ Range(call.inst.host)
        /\ Range(web[2].interface) = Range(call.before[1].interface)
        /\ TableOf(web[2]) = TableOf(call.before[1])

(***************************************************************************)
(* C9 amended.  Partial host overlap leaves exactly two groups, in this    *)
(* order: {H', I} and {H minus H', I} with T; the table of the first is T  *)
(* plus the request's descriptor in the requested slot when the slot is    *)
(* free in T or the policy is Overwrite, and T itself when the slot is     *)
(* occupied and the policy is Ignore.                                      *)
(***************************************************************************)
C9_HostSplit ==
    PartialHostOverlap =>
        /\ call.result = "Ok"
        /\ Len(web) = 2
        /\ Range(web[1].host) = Range(call.inst.host)
        /\ Range(web[1].interface) = Range(call.before[1].interface)
        /\ TableOf(web[1]) = MatchedTable
        /\ Range(web[2].host) = Range(call.before[1].host) \ Range(call.inst.host)
        /\ Range(web[2].interface) = Range(call.before[1].interface)
        /\ TableOf(web[2]) = TableOf(call.before[1])

C9_Witness ==
    /\ PartialHostOverlap
    /\ call.policy = "Ignore"
    /\ SlotOf(call.before[1], call.inst.location) # None
    /\ Len(web) = 2

(***************************************************************************)
(* C10 as stated.  Partial interface overlap leaves exactly two groups, in *)
(* this order: {H, I'} with T plus the request's descriptor in the         *)
(* requested slot, and {H, I minus I'} with T.                             *)
(***************************************************************************)
C10_InterfaceSplit_AsStated ==
    PartialInterfaceOverlap =>
        /\ Len(web) = 2
        /\ Range(web[1].host) = Range(call.before[1].host)
        /\ Range(web[1].interface) = Range(call.inst.interface)
        /\ TableOf(web[1]) = TableWith(TableOf(call.before[1]), call.inst)
        /\ Range(web[2].host) = Range(call.before[1].host)
        /\ Range(web[2].interface) =
               Range(call.before[1].interface) \ Range(call.inst.interface)
        /\ TableOf(web[2]) = TableOf(call.before[1])

(***************************************************************************)
(* C10 amended.  Partial interface overlap leaves exactly two groups, in   *)
(* this order: {H, I'} and {H, I minus I'} with T; the table of the first  *)
(* is T plus the request's descriptor in the requested slot when the slot  *)
(* is free in T or the policy is Overwrite, and T itself when the slot is  *)
(* occupied and the policy is Ignore.                                      *)
(***************************************************************************)
C10_InterfaceSplit ==
    PartialInterfaceOverlap =>
        /\ call.result = "Ok"
        /\ Len(web) = 2
        /\ Range(web[1].host) = Range(call.before[1].host)
        /\ Range(web[1].interface) = Range(call.inst.interface)
        /\ TableOf(web[1]) = MatchedTable
        /\ Range(web[2].host) = Range(call.before[1].host)
        /\ Range(web[2].interface) =
               Range(call.before[1].interface) \ Range(call.inst.interface)
        /\ TableOf(web[2]) = TableOf(call.before[1])

C10_Witness ==
    /\ PartialInterfaceOverlap
    /\ call.policy = "Ignore"
    /\ SlotOf(call.before[1], call.inst.location) # None
    /\ Len(call.inst.host) = 2
    /\ Len(web) = 2

(* The request of the last call made again: the same interfaces and slot,  *)
(* the same hosts in every order, and a descriptor of its own.             *)
SameRequestAgain ==
    {[host |-> hosts, interface |-> call.inst.interface,
      location |-> call.inst.location, descriptor |-> ncalls + 1] :
        hosts \in {hl \in HostLists : Range(hl) = Range(call.inst.host)}}

(***************************************************************************)
(* C11.  After add_server returned Ok, under whatever policy, a call under *)
(* policy Error that follows at once and names the same hosts, the same    *)
(* interfaces and the same slot (whatever its backend) fails with          *)
(* AlreadyExists, and the registry has as many groups after the failed     *)
(* call as before it.                                                      *)
(***************************************************************************)
C11_ReRegistrationFails ==
    Succeeded =>
        \A again \in SameRequestAgain :
            LET second == add_server(web, again, "Error")
            IN  /\ second.result = "AlreadyExists"
                /\ Len(second.web) = Len(web)

(* new keeps the backend of every slot old holds; g holds nothing but the  *)
(* request's descriptor in the requested slot.                             *)
KeepsOccupiedSlots(old, new) ==
    \A s \in LocationValues :
        SlotOf(old, s) # None => SlotOf(new, s) = SlotOf(old, s)

OnlyRequestedSlot(g) ==
    TableOf(g) = TableWith([subservers |-> EmptyMap, server |-> None], call.inst)

(***************************************************************************)
(* C12.  Under policy Ignore nothing is replaced.  Every (host, interface, *)
(* slot) that some group resolved to a backend before the call is resolved *)
(* to the same backend by a group covering the pair after it; every group  *)
(* that was there before keeps the backend of each slot it had occupied;   *)
(* and every group added by the call is either a new group holding only    *)
(* the request's descriptor or a clone that keeps the occupied slots of a  *)
(* group it was cut from.                                                  *)
(***************************************************************************)
C12_IgnoreNeverReplaces ==
    (Added /\ call.policy = "Ignore") =>
        /\ \A k \in 1..Len(call.before), s \in LocationValues :
               SlotOf(call.before[k], s) # None =>
                   \A h \in Range(call.before[k].host), i \in Range(call.before[k].interface) :
                       \E j \in 1..Len(web) :
                           /\ Covers(web[j], h, i)
                           /\ SlotOf(web[j], s) = SlotOf(call.before[k], s)
        /\ Len(web) >= Len(call.before)
        /\ \A k \in 1..Len(call.before) : KeepsOccupiedSlots(call.before[k], web[k])
        /\ \A j \in (Len(call.before) + 1)..Len(web) :
               \/ OnlyRequestedSlot(web[j])
               \/ \E k \in 1..Len(call.before) :
                      /\ Range(web[j].host) \subseteq Range(call.before[k].host)
                      /\ Range(web[j].interface) \subseteq Range(call.before[k].interface)
                      /\ KeepsOccupiedSlots(call.before[k], web[j])

C12_Witness ==
    /\ Succeeded
    /\ call.policy = "Ignore"
    /\ OccupiedBefore
    /\ Len(web) > Len(call.before)
    /\ \E k \in 1..Len(call.before) :
           /\ SlotOf(call.before[k], call.inst.location) # None
           /\ web[k] # call.before[k]

(***************************************************************************)
(* C13.  After add_server returns under policy Overwrite, no group that    *)
(* covers a (host, interface) pair of the request holds in the requested   *)
(* slot a backend other than the request's descriptor.                     *)
(***************************************************************************)
C13_OverwriteReplacesEverywhere ==
    (Succeeded /\ call.policy = "Overwrite") =>
        \A k \in 1..Len(web), p \in RequestedPairs :
            Covers(web[k], p[1], p[2]) =>
                SlotOf(web[k], call.inst.location) \in {None, Some(call.inst.descriptor)}

(***************************************************************************)
(* C14.  Under policy Ignore and under policy Overwrite, add_server with a *)
(* non-empty host list and a non-empty interface list returns Ok, whatever *)
(* the registry holds.                                                     *)
(***************************************************************************)
C14_IgnoreOverwriteNeverFail ==
    (ValidInput /\ call.policy \in {"Ignore", "Overwrite"}) =>
        call.result = "Ok"

C14_Witness ==
    /\ ValidInput
    /\ call.policy = "Ignore"
    /\ call.result = "Ok"
    /\ Len(call.before) >= 2
    /\ \A p \in RequestedPairs :
           \E k \in 1..Len(call.before) :
               /\ Covers(call.before[k], p[1], p[2])
               /\ SlotOf(call.before[k], call.inst.location) # None

(* The last call was clear; the requests a registry can get first; what a  *)
(* new registry answers to each of them.                                   *)
Cleared == call.op = "clear"

FirstRequests ==
    {[host |-> h, interface |-> f, location |-> l, descriptor |-> 1] :
        h \in HostLists \ {<<>>}, f \in InterfaceLists \ {<<>>}, l \in LocationValues}

AnswersAsNew(w) ==
    \A inst \in FirstRequests, policy \in OverwritePolicy :
        LET first == add_server(w, inst, policy)
        IN  /\ first.result = "Ok"
            /\ Len(first.web) = 1
            /\ Range(first.web[1].host) = Range(inst.host)
            /\ Range(first.web[1].interface) = Range(inst.interface)
            /\ TableOf(first.web[1]) =
                   TableWith([subservers |-> EmptyMap, server |-> None], inst)

EmptyAnswersAsNew == AnswersAsNew(<<>>)

(***************************************************************************)
(* C15.  clear, after whatever add_server calls, leaves the registry with  *)
(* no group, and the registry then answers as a new one does: add_server   *)
(* with non-empty lists, under every policy, returns Ok and leaves exactly *)
(* one group, whose hosts and interfaces are the request's and whose only  *)
(* occupied slot is the requested one, holding the request's descriptor.   *)
(* Registry has no field but web, so what the next call does is what       *)
(* add_server does on the registry clear has left.                         *)
(***************************************************************************)
C15_Reset ==
    Cleared =>
        /\ web = <<>>
        /\ ncalls = 0
        /\ EmptyAnswersAsNew

C15_Witness ==
    /\ Cleared
    /\ Len(call.before) >= 3
    /\ web = <<>>
    /\ ncalls = 0

(* The case of the five-way split, and a group given by its host set, its  *)
(* interface set and its table.                                            *)
FiveWayCase ==
    /\ ValidInput
    /\ Len(call.before) = 1
    /\ SlotOf(call.before[1], call.inst.location) = None
    /\ Cardinality(Range(call.before[1].host) \cap Range(call.inst.host)) = 1
    /\ Range(call.before[1].host) \ Range(call.inst.host) # {}
    /\ Range(call.inst.host) \ Range(call.before[1].host) # {}
    /\ Range(call.before[1].interface) \cap Range(call.inst.interface) # {}
    /\ Range(call.before[1].interface) \ Range(call.inst.interface) # {}
    /\ Range(call.inst.interface) \ Range(call.before[1].interface) # {}

IsGroup(g, hosts, interfaces, table) ==
    /\ Range(g.host) = hosts
    /\ Range(g.interface) = interfaces
    /\ TableOf(g) = table

(***************************************************************************)
(* C16.  The registry holds a single group {H, I, T}; the request names    *)
(* hosts H' and interfaces I' with H and H' sharing exactly one host h,    *)
(* each holding a host the other has not, I and I' sharing an interface    *)
(* and each holding an interface the other has not, and a slot free in T.  *)
(* Then add_server succeeds and the registry is exactly, in this order:    *)
(* {{h}, I and I'} with T plus the request's descriptor in the requested   *)
(* slot; {H minus H', I} with T; {{h}, I minus I'} with T; {H' minus H,    *)
(* I'} with the request's descriptor only; {{h}, I' minus I} with the      *)
(* request's descriptor only.                                              *)
(***************************************************************************)
C16_FiveWaySplit ==
    FiveWayCase =>
        LET H == Range(call.before[1].host)
            I == Range(call.before[1].interface)
            T == TableOf(call.before[1])
            Hr == Range(call.inst.host)
            Ir == Range(call.inst.interface)
            new == TableWith([subservers |-> EmptyMap, server |-> None], call.inst)
        IN  /\ call.result = "Ok"
            /\ Len(web) = 5
            /\ IsGroup(web[1], H \cap Hr, I \cap Ir, TableWith(T, call.inst))
            /\ IsGroup(web[2], H \ Hr, I, T)
            /\ IsGroup(web[3], H \cap Hr, I \ Ir, T)
            /\ IsGroup(web[4], Hr \ H, Ir, new)
            /\ IsGroup(web[5], H \cap Hr, Ir \ I, new)

C16_Witness ==
    /\ FiveWayCase
    /\ call.policy = "Error"
    /\ call.inst.host[1] \notin Range(call.before[1].host)
    /\ Len(web) = 5

(* The request names the hosts of the only group and more interfaces.      *)
InterfaceExtensionCase ==
    /\ SingleGroupCase
    /\ Range(call.inst.host) = Range(call.before[1].host)
    /\ ProperNonEmptySubset(Range(call.before[1].interface), Range(call.inst.interface))

(***************************************************************************)
(* C17.  The registry holds a single group {H, I, T}; the request names    *)
(* exactly the hosts H, interfaces I' that hold all of I and more, and a   *)
(* slot that is free in T unless the policy is not Error.  Then the        *)
(* registry is exactly, in this order: {H, I} with T plus the request's    *)
(* descriptor in the requested slot, and {H, I' minus I} with the          *)
(* request's descriptor only, whatever the size of H.  The table of the    *)
(* first group is read as in C9 and C10: an occupied slot is left as it is *)
(* under Ignore.                                                           *)
(***************************************************************************)
C17_InterfaceExtension ==
    InterfaceExtensionCase =>
        /\ Len(web) = 2
        /\ IsGroup(web[1], Range(call.before[1].host), Range(call.before[1].interface),
                   MatchedTable)
        /\ IsGroup(web[2], Range(call.before[1].host),
                   Range(call.inst.interface) \ Range(call.before[1].interface),
                   TableWith([subservers |-> EmptyMap, server |-> None], call.inst))

(* The groups the last call created, each with the registry it was pushed  *)
(* to.                                                                     *)
FreshGroups ==
    IF ValidInput
    THEN CreatingHostLog(call.before, <<(<<call.inst.host, call.inst.interface>>)>>,
                         call.inst, call.policy)
    ELSE <<>>

(***************************************************************************)
(* C18.  Whenever add_server pushes a new group (not a clone) with hosts R *)
(* and interfaces J, no group of the registry at that moment contains both *)
(* a host of R and an interface of J.                                      *)
(***************************************************************************)
C18_FreshOnlyForUncovered ==
    Added =>
        \A n \in 1..Len(FreshGroups) :
            \A k \in 1..Len(FreshGroups[n].web) :
                ~ \E h \in Range(FreshGroups[n].hosts), i \in Range(FreshGroups[n].interfaces) :
                      Covers(FreshGroups[n].web[k], h, i)

(***************************************************************************)
(* C19.  Across any add_server call, whether it succeeds or fails, the     *)
(* registry never gets shorter, and every group that was there before the  *)
(* call is still at its index with hosts and interfaces that are subsets   *)
(* of those it had.                                                        *)
(***************************************************************************)
C19_AppendOnly ==
    Added =>
        /\ Len(web) >= Len(call.before)
        /\ \A k \in 1..Len(call.before) :
               /\ Range(web[k].host) \subseteq Range(call.before[k].host)
               /\ Range(web[k].interface) \subseteq Range(call.before[k].interface)

C19_Witness ==
    /\ Added
    /\ call.result = "AlreadyExists"
    /\ Len(web) = Len(call.before)
    /\ \E k \in 1..Len(call.before) :
           /\ Range(web[k].host) # Range(call.before[k].host)
           /\ Range(web[k].interface) # Range(call.before[k].interface)

(* The request names exactly the hosts and the interfaces of g.            *)
ExactMatch(g) ==
    /\ Range(call.inst.host) = Range(g.host)
    /\ Range(call.inst.interface) = Range(g.interface)

(***************************************************************************)
(* C20.  In every reachable state, when the host set and the interface set *)
(* of the request are exactly those of a group g of the registry and       *)
(* add_server succeeds, the registry has as many groups as before, every   *)
(* group has the hosts and interfaces it had, and nothing has changed but  *)
(* the requested slot of g.                                                *)
(***************************************************************************)
C20_ExactMatchInPlace ==
    (Succeeded /\ \E g \in 1..Len(call.before) : ExactMatch(call.before[g])) =>
        /\ Len(web) = Len(call.before)
        /\ \A k \in 1..Len(call.before) :
               /\ web[k].host = call.before[k].host
               /\ web[k].interface = call.before[k].interface
        /\ \E g \in 1..Len(call.before) :
               /\ ExactMatch(call.before[g])
               /\ \A k \in 1..Len(call.before) : k # g => web[k] = call.before[k]
               /\ \A s \in LocationValues :
                      s # call.inst.location => SlotOf(web[g], s) = SlotOf(call.before[g], s)

(***************************************************************************)
(* C21.  add_server terminates: on every registry and for every request    *)
(* with duplicate-free host and interface lists, under every policy, a     *)
(* call that has begun returns; the host loop of each work item ends and   *)
(* the worklist runs empty after finitely many items.                      *)
(***************************************************************************)
C21_Termination == Running ~> Added

C21_Witness ==
    /\ Succeeded
    /\ Len(call.taken) >= 2
    /\ Len(call.before) >= 1
    /\ Len(web) >= 3

(***************************************************************************)
(* C22.  After add_server returns Ok, every (host, interface) pair that a  *)
(* group covered before the call is covered by a group after it, and that  *)
(* group holds in every slot other than the requested one what the group   *)
(* that covered the pair before held there.                                *)
(***************************************************************************)
C22_PairCoveragePreserved ==
    Succeeded =>
        \A k \in 1..Len(call.before) :
            \A h \in Range(call.before[k].host), i \in Range(call.before[k].interface) :
                \E j \in 1..Len(web) :
                    /\ Covers(web[j], h, i)
                    /\ \A s \in LocationValues :
                           s # call.inst.location =>
                               SlotOf(web[j], s) = SlotOf(call.before[k], s)

C22_Witness ==
    /\ Succeeded
    /\ call.policy = "Overwrite"
    /\ Len(web) >= Len(call.before) + 2
    /\ \E k \in 1..Len(call.before) :
           /\ Range(web[k].host) # Range(call.before[k].host)
           /\ Range(web[k].interface) # Range(call.before[k].interface)
           /\ \E s \in LocationValues :
                  s # call.inst.location /\ SlotOf(call.before[k], s) # None

OutOfFrame(g, inst) ==
    \/ Range(g.host) \cap Range(inst.host) = {}
    \/ Range(g.interface) \cap Range(inst.interface) = {}

(***************************************************************************)
(* C23.  Whatever add_server returns, a group that shares no host with the *)
(* requested hosts, and a group that shares no interface with the          *)
(* requested interfaces, is after the call what it was before it: same     *)
(* position, host list, interface list, location table and default slot.   *)
(***************************************************************************)
C23_Frame ==
    Added =>
        \A k \in 1..Len(call.before) :
            OutOfFrame(call.before[k], call.inst) =>
                k <= Len(web) /\ web[k] = call.before[k]

C23_Witness ==
    /\ Added
    /\ call.result = "AlreadyExists"
    /\ \E k \in 1..Len(call.before) :
           /\ Range(call.before[k].host) \cap Range(call.inst.host) # {}
           /\ Range(call.before[k].interface) \cap Range(call.inst.interface) = {}
           /\ web[k] = call.before[k]
    /\ \E k \in 1..Len(call.before) : web[k] # call.before[k]

(***************************************************************************)
(* C24.  After add_server returned Ok, under whatever policy, the same     *)
(* request (same hosts, interfaces, slot and backend) made again at once   *)
(* under policy Ignore returns Ok and leaves the registry exactly as it    *)
(* was.                                                                    *)
(***************************************************************************)
C24_IdempotentUnderIgnore ==
    Succeeded =>
        LET second == add_server(web, call.inst, "Ignore")
        IN  /\ second.result = "Ok"
            /\ second.web = web

(***************************************************************************)
(* C25.  add_server under policy Error returns AlreadyExists only if,      *)
(* before the call, some group covering a requested (host, interface) pair *)
(* already held a backend in the requested slot: a slot the call itself    *)
(* has filled is never the cause of the failure.                           *)
(***************************************************************************)
C25_NoSpuriousConflict ==
    (Added /\ call.policy = "Error" /\ call.result = "AlreadyExists") => OccupiedBefore

(* The work items of the call in the order they entered the worklist: the  *)
(* request's own pair, then the pushed items.                              *)
Entered ==
    <<(<<call.inst.host, call.inst.interface>>)>>
        \o [n \in 1..Len(call.pushed) |-> call.pushed[n].item]

(***************************************************************************)
(* C26.  During and after add_server, every work item pushed onto the      *)
(* worklist has exactly one host, a host of the original request, and an   *)
(* interface set that is a non-empty proper subset of the interface set of *)
(* the item that was being processed when it was pushed; the items are     *)
(* taken in the order they were pushed, after the item being processed.    *)
(***************************************************************************)
C26_WorkItemShape ==
    (Running \/ Added) =>
        /\ \A n \in 1..Len(call.pushed) :
               LET hosts == call.pushed[n].item[1]
                   interfaces == call.pushed[n].item[2]
                   from == call.pushed[n].from
               IN  /\ Len(hosts) = 1
                   /\ hosts[1] \in Range(call.inst.host)
                   /\ Range(interfaces) # {}
                   /\ Range(interfaces) \subseteq Range(from)
                   /\ Range(interfaces) # Range(from)
        /\ IF Running
           THEN call.taken \o Tail(call.pairs) \o call.new_pairs = Entered
           ELSE call.taken = SubSeq(Entered, 1, Len(call.taken))

C26_Witness ==
    /\ Succeeded
    /\ Len(call.pushed) = 2
    /\ Len(call.taken) = 3
    /\ call.pushed[1].item # call.pushed[2].item

====
